---- MODULE Spec2Model ----
(***************************************************************************)
(* Client request/download flow of the Markdown-to-PDF converter           *)
(* (src/src/App.jsx): the React state of the App component, the committed  *)
(* view (what the DOM shows and what a user can click), and the two async  *)
(* flows convertToPdf and generateCertificate with their suspension points *)
(* (await fetch, await response.json(), await response.blob()).            *)
(*                                                                         *)
(* React applies setState asynchronously: a handler only records the new   *)
(* state, and the `disabled` attribute of a submit button changes when     *)
(* React commits the next render (action Commit).  The window between a    *)
(* submit handler (or a continuation of its flow) and that commit is kept  *)
(* open, because it is the window the busy flag has to cover.  Controlled  *)
(* inputs are restored synchronously at the end of their onChange handler, *)
(* so an edit commits in the same step; a tab switch is modelled the same  *)
(* way.                                                                    *)
(*                                                                         *)
(* Specifications:                                                         *)
(*   Spec, FairSpec  the client alone; the server is any of Responses      *)
(*   NameSpec        the certificate form submitted with any short name    *)
(*   ServerSpec      the endpoints POST /api/convert and /api/certificate  *)
(*                   handling concurrent requests                          *)
(*   EditorSpec      the Conversion form answered by POST /api/convert     *)
(*   RenameSpec      the certificate form retyped while its request is in  *)
(*                   flight                                                *)
(*   LegacySpec, FairLegacySpec                                            *)
(*                   the earlier client (src/unnamed/part_003): the        *)
(*                   preview rendered to a canvas and paginated by jsPDF   *)
(***************************************************************************)
EXTENDS Integers, Sequences, FiniteSets, TLC

\* ---------------------------------------------------------------- bounds
\* Handler invocations (both forms together) explored by the model.
MaxSubmits == 2
\* Longest participant name typed into the certificate form in NameSpec and
\* RenameSpec.
MaxNameLen == 4
\* Requests the server receives in ServerSpec.
MaxRequests == 2
\* Tallest canvas (in pixels) html2canvas resolves with in LegacySpec.
MaxCanvasHeight == 900

\* ------------------------------------------------------------- constants
null == "null"
undefined == "undefined"

Forms == {"conv", "cert"}
Tabs == {"markdown", "certificate"}

\* COURSES (two of the seven entries; the list is only tested for membership)
COURSES == {"AI Product Development Fundamentals", "Full-Stack AI Development"}

\* Values the user can put in the editor and in the certificate fields.
\* Names are sequences of characters so that trim() and replace() are
\* computed, not assumed.
MarkdownTexts == {"# Welcome", ""}
ParticipantNames == {<<>>, <<" ">>, <<"J", " ", "D">>}
CourseChoices == {""} \cup {"Full-Stack AI Development"}
DateChoices == {"", "2026-01-01"}
InstructorChoices == {"IntelliForge AI Team", ""}

\* Initial React state (useState arguments)
InitMarkdown == "# Welcome"
InitCertForm ==
    [participant_name |-> <<>>,
     course_name |-> "",
     completion_date |-> "2026-01-01",
     instructor_name |-> "IntelliForge AI Team"]

\* ------------------------------------------------- responses of the server
\* Body of a non-ok response as response.json() sees it: it does not parse
\* (json() rejects), it parses to the JSON value null, or it parses to an
\* object whose `detail` is absent, empty or a message.
Details == {undefined, "", "Markdown content is required"}
Unparsable == [json |-> "unparsable", detail |-> undefined]
JsonNull == [json |-> "null", detail |-> undefined]
JsonObject(d) == [json |-> "object", detail |-> d]
\* Body of an ok response (read with response.blob()), and of no response yet
BlobBody == [json |-> "blob", detail |-> undefined]
NoBody == [json |-> "none", detail |-> undefined]

\* Responses a fetch can resolve with (response.ok is status in 200..299)
\* The sample: a PDF, the API's 400 with each kind of detail, and a 500 whose
\* body is an object without detail, the JSON value null, or not JSON at all.
Ok(status) == status \in 200..299
Responses ==
    {[status |-> 200, body |-> BlobBody]}
    \cup {[status |-> 400, body |-> JsonObject(d)] : d \in Details}
    \cup {[status |-> 500, body |-> b] :
            b \in {JsonObject(undefined), JsonNull, Unparsable}}

\* Messages of the errors the platform throws
FetchFailedMsg == "Failed to fetch"
BodyReadFailedMsg == "Failed to read body"
NullDetailMsg == "Cannot read properties of null (reading 'detail')"

VARIABLES
    activeTab,      \* useState('markdown')
    markdown,       \* editor text
    isConverting,   \* busy flag of the Conversion form
    error,          \* error display of the Conversion form
    certForm,       \* certificate fields
    isGenerating,   \* busy flag of the Certificate form
    certError,      \* error display of the Certificate form
    certSuccess,    \* success display of the Certificate form
    dom,            \* committed view: disabled attribute of the two submit buttons
    flows,          \* the suspended runs of the two handlers, by submission number
    requests,       \* number of network requests issued per form
    submits,        \* handler runs per form
    objectURLs,     \* object URLs created and not revoked
    anchors,        \* transient anchors attached to document.body
    downloads,      \* files saved by a.click()
    opLog,          \* the URL/DOM calls of the latest download sequence, in order
    unhandled,      \* errors that left a flow without being caught
    calls,          \* server: the runs of the endpoint handlers, by request
    replies,        \* server: the response sent for each request
    previewRef,     \* legacy client: previewRef.current
    isConvertingLegacy, \* legacy client: isConverting
    legacyPc,       \* legacy client: where its convertToPdf stands
    canvas,         \* legacy client: the canvas html2canvas resolved with
    heightLeft,     \* legacy client: heightLeft (in 1/canvas.width mm)
    position,       \* legacy client: position (in 1/canvas.width mm)
    pdf,            \* legacy client: the pages of the jsPDF document, each
                    \* the offset its image was added at
    savedPdf,       \* legacy client: the documents saved by pdf.save
    alerts          \* legacy client: alert() calls

vars == <<activeTab, markdown, isConverting, error, certForm, isGenerating,
          certError, certSuccess, dom, flows, requests, submits, objectURLs,
          anchors, downloads, opLog, unhandled, calls, replies,
          previewRef, isConvertingLegacy, legacyPc, canvas, heightLeft,
          position, pdf, savedPdf, alerts>>

client == <<activeTab, markdown, isConverting, error, certForm, isGenerating,
            certError, certSuccess, dom, flows, requests, submits, objectURLs,
            anchors, downloads, opLog, unhandled>>
server == <<calls, replies>>
legacy == <<previewRef, isConvertingLegacy, legacyPc, canvas, heightLeft,
            position, pdf, savedPdf, alerts>>

\* The legacy client before it is mounted and used
NoCanvas == [width |-> 0, height |-> 0]
LegacyInit ==
    /\ previewRef = null
    /\ isConvertingLegacy = FALSE
    /\ legacyPc = "idle"
    /\ canvas = NoCanvas
    /\ heightLeft = 0
    /\ position = 0
    /\ pdf = <<>>
    /\ savedPdf = <<>>
    /\ alerts = 0

convState == <<isConverting, error>>
certState == <<isGenerating, certError, certSuccess>>
resources == <<objectURLs, anchors, downloads, opLog>>

\* ------------------------------------------------------------- rendering
\* What a render of the current state puts in the DOM.
Rendered == [convDisabled |-> isConverting, genDisabled |-> isGenerating]

TotalSubmits == submits["conv"] + submits["cert"]

Init ==
    /\ activeTab = "markdown"
    /\ markdown = InitMarkdown
    /\ isConverting = FALSE
    /\ error = null
    /\ certForm = InitCertForm
    /\ isGenerating = FALSE
    /\ certError = null
    /\ certSuccess = FALSE
    /\ dom = [convDisabled |-> FALSE, genDisabled |-> FALSE]
    /\ flows = <<>>
    /\ requests = [f \in Forms |-> 0]
    /\ submits = [f \in Forms |-> 0]
    /\ objectURLs = {}
    /\ anchors = {}
    /\ downloads = <<>>
    /\ opLog = <<>>
    /\ unhandled = 0
    /\ calls = <<>>
    /\ replies = <<>>
    /\ LegacyInit

\* React commits the pending state to the DOM.
Commit ==
    /\ dom # Rendered
    /\ dom' = Rendered
    /\ UNCHANGED <<activeTab, markdown, convState, certForm, certState, flows,
                   requests, submits, resources, unhandled>>

\* ------------------------------------------------------- pure functions
\* JavaScript falsiness of the values `detail` can take (the left side of ||)
Falsy(v) == v \in {undefined, null, ""}

IsSpace(c) == c = " "

\* String.prototype.trim on a sequence of characters
RECURSIVE TrimStart(_)
TrimStart(s) ==
    IF s = <<>> THEN <<>>
    ELSE IF IsSpace(Head(s)) THEN TrimStart(Tail(s)) ELSE s

RECURSIVE TrimEnd(_)
TrimEnd(s) ==
    IF s = <<>> THEN <<>>
    ELSE IF IsSpace(s[Len(s)]) THEN TrimEnd(SubSeq(s, 1, Len(s) - 1)) ELSE s

trim(s) == TrimEnd(TrimStart(s))

\* name.replace(/\s+/g, '_'): every maximal run of whitespace becomes one '_'
RECURSIVE ReplaceSpaces(_)
ReplaceSpaces(s) ==
    IF s = <<>> THEN <<>>
    ELSE IF IsSpace(Head(s))
         THEN <<"_">> \o ReplaceSpaces(TrimStart(s))
         ELSE <<Head(s)>> \o ReplaceSpaces(Tail(s))

\* `Server error: ${response.status}`
ServerErrorMsg(status) == "Server error: " \o ToString(status)

\* response.json().catch(() => ({ detail: 'Unknown error' }))
ErrorData(body) ==
    IF body.json = "unparsable"
    THEN [json |-> "object", detail |-> "Unknown error"]
    ELSE body

\* Mutant of ThrownMessage: the body is not consulted.
ThrownMessage_StatusOnly(status, body) == ServerErrorMsg(status)

\* The message of the error that reaches the catch block for a non-ok
\* response: new Error(errorData.detail || `Server error: ...`), or the
\* TypeError of reading `.detail` of null.
ThrownMessage(status, body) ==
    LET errorData == ErrorData(body) IN
    IF errorData.json = "null" THEN NullDetailMsg
    ELSE IF Falsy(errorData.detail) THEN ServerErrorMsg(status)
    ELSE errorData.detail

\* Mutant of ValidationError: the name is tested without trim().
ValidationError_NoTrim(form) ==
    IF form.participant_name = <<>> THEN "Please enter participant name"
    ELSE IF form.course_name = "" THEN "Please select a course"
    ELSE IF form.completion_date = "" THEN "Please select a date"
    ELSE null

\* Mutant of ValidationError: the course is not tested.
ValidationError_NoCourse(form) ==
    IF trim(form.participant_name) = <<>> THEN "Please enter participant name"
    ELSE IF form.completion_date = "" THEN "Please select a date"
    ELSE null

\* The three checks at the head of generateCertificate's try block: the
\* message thrown, or null when the form passes.
ValidationError(form) ==
    IF trim(form.participant_name) = <<>> THEN "Please enter participant name"
    ELSE IF form.course_name = "" THEN "Please select a course"
    ELSE IF form.completion_date = "" THEN "Please select a date"
    ELSE null

\* Mutant of DownloadName: the certificate is named after the form as it is
\* when the response is handled.
DownloadName_Live(form, captured) ==
    IF form = "conv" THEN <<"markdown-export.pdf">>
    ELSE <<"Certificate_">> \o ReplaceSpaces(certForm.participant_name)
         \o <<".pdf">>

\* Mutant of DownloadName: replace(/\s/g, '_'), one '_' per whitespace
\* character.
DownloadName_EachSpace(form, captured) ==
    IF form = "conv" THEN <<"markdown-export.pdf">>
    ELSE <<"Certificate_">>
         \o [k \in 1..Len(captured.participant_name) |->
                IF IsSpace(captured.participant_name[k]) THEN "_"
                ELSE captured.participant_name[k]]
         \o <<".pdf">>

\* a.download
DownloadName(form, captured) ==
    IF form = "conv" THEN <<"markdown-export.pdf">>
    ELSE <<"Certificate_">> \o ReplaceSpaces(captured.participant_name)
         \o <<".pdf">>

\* JSON.stringify(...) of the fetch call
RequestBody(form, captured) ==
    IF form = "conv"
    THEN [markdown |-> captured, filename |-> "markdown-export.pdf"]
    ELSE captured

\* --------------------------------------------------------------- flows
\* A flow is one run of convertToPdf or generateCertificate that reached its
\* fetch.  `captured` is the state the handler's closure reads (markdown in
\* convertToPdf, certForm in generateCertificate); pc is the await the flow
\* is suspended at; status and body are the response once received; call is
\* the server's call that handles the request (0 while the request has not
\* reached a server of the model).  A flow that returns leaves `flows`.
NewFlow(form) ==
    [form |-> form, pc |-> "fetch",
     captured |-> IF form = "conv" THEN markdown ELSE certForm,
     status |-> 0, body |-> NoBody, call |-> 0]

FlowIds == DOMAIN flows
InFlight(form) == {i \in FlowIds : flows[i].form = form}

\* The handler suspends at its fetch / the async function returns
Suspend(form) ==
    [i \in FlowIds \cup {TotalSubmits + 1} |->
        IF i = TotalSubmits + 1 THEN NewFlow(form) ELSE flows[i]]
Return(i) == [j \in FlowIds \ {i} |-> flows[j]]

Busy(form) == IF form = "conv" THEN isConverting ELSE isGenerating
ErrorOf(form) == IF form = "conv" THEN error ELSE certError

\* Mutant of Catch: the display is cleared instead of set.
Catch_Cleared(form, msg) ==
    /\ IF form = "conv"
       THEN error' = null /\ certError' = certError
       ELSE certError' = null /\ error' = error
    /\ unhandled' = unhandled

\* Mutant of Catch: the error is logged and thrown on instead of stored.
Catch_Rethrown(form, msg) ==
    /\ UNCHANGED <<error, certError>>
    /\ unhandled' = unhandled + 1

\* catch (err) { console.error(...); setError(err.message) }
Catch(form, msg) ==
    /\ IF form = "conv"
       THEN error' = msg /\ certError' = certError
       ELSE certError' = msg /\ error' = error
    /\ unhandled' = unhandled

\* Mutant of Finally: the busy flag is not cleared.
Finally_Skipped(form) == UNCHANGED <<isConverting, isGenerating>>

\* finally { setIsConverting(false) }
\* Mutant of Finally: one shared busy flag, both are cleared.
Finally_BothFlags(form) == isConverting' = FALSE /\ isGenerating' = FALSE

Finally(form) ==
    IF form = "conv"
    THEN isConverting' = FALSE /\ isGenerating' = isGenerating
    ELSE isGenerating' = FALSE /\ isConverting' = isConverting

\* Mutant of Fail: the catch block sends the request again.
Fail_Retry(i, msg) ==
    /\ flows' = [flows EXCEPT ![i].pc = "fetch", ![i].status = 0, ![i].body = NoBody]
    /\ requests' = [requests EXCEPT ![flows[i].form] = @ + 1]
    /\ requests[flows[i].form] <= MaxSubmits
    /\ Catch(flows[i].form, msg)
    /\ UNCHANGED <<activeTab, markdown, isConverting, isGenerating, certForm,
                   certSuccess, dom, submits, resources>>

\* An error thrown after the fetch was issued: the flow ends in catch/finally.
Fail(i, msg) ==
    /\ flows' = Return(i)
    /\ Catch(flows[i].form, msg)
    /\ Finally(flows[i].form)
    /\ UNCHANGED <<activeTab, markdown, certForm, certSuccess, dom, requests,
                   submits, resources>>

\* Mutant of DownloadSteps: the object URL is never revoked.
DownloadSteps_NoRevoke == <<"createObjectURL", "appendChild", "click", "removeChild">>

\* Mutant of DownloadSteps: the anchor is clicked twice.
DownloadSteps_DoubleClick ==
    <<"createObjectURL", "appendChild", "click", "click", "revokeObjectURL",
      "removeChild">>

\* The synchronous download sequence that follows `await response.blob()`
DownloadSteps ==
    <<"createObjectURL", "appendChild", "click", "revokeObjectURL", "removeChild">>

\* Effect of one step on the document: the object URL and the anchor of flow
\* i are identified by i; a.click() saves the file when the anchor's href is
\* a live object URL.
DoStep(st, op, i, name) ==
    LET logged == [st EXCEPT !.log = Append(@, op)] IN
    CASE op = "createObjectURL" -> [logged EXCEPT !.urls = @ \cup {i}]
      [] op = "appendChild" -> [logged EXCEPT !.anchors = @ \cup {i}]
      [] op = "click" ->
            IF i \in st.urls
            THEN [logged EXCEPT !.saved = Append(@, [flow |-> i, name |-> name])]
            ELSE logged
      [] op = "revokeObjectURL" -> [logged EXCEPT !.urls = @ \ {i}]
      [] op = "removeChild" -> [logged EXCEPT !.anchors = @ \ {i}]

RECURSIVE RunSteps(_, _, _, _)
RunSteps(st, ops, i, name) ==
    IF ops = <<>> THEN st
    ELSE RunSteps(DoStep(st, Head(ops), i, name), Tail(ops), i, name)

\* ------------------------------------------------------------- handlers
\* onClick of the Download PDF button (disabled={isConverting})
ConvertToPdf ==
    /\ activeTab = "markdown"
    /\ ~dom.convDisabled
    /\ TotalSubmits < MaxSubmits
    /\ submits' = [submits EXCEPT !["conv"] = @ + 1]
    /\ isConverting' = TRUE
    /\ error' = null
    /\ flows' = Suspend("conv")
    /\ requests' = [requests EXCEPT !["conv"] = @ + 1]
    /\ UNCHANGED <<activeTab, markdown, certForm, certState, dom, resources,
                   unhandled>>

\* onSubmit of the certificate form (submit button disabled={isGenerating})
GenerateCertificate ==
    /\ activeTab = "certificate"
    /\ ~dom.genDisabled
    /\ TotalSubmits < MaxSubmits
    /\ submits' = [submits EXCEPT !["cert"] = @ + 1]
    /\ certSuccess' = FALSE
    /\ IF ValidationError(certForm) # null
       THEN \* thrown before the fetch: catch and finally run in the handler
            /\ Catch("cert", ValidationError(certForm))
            /\ Finally("cert")
            /\ UNCHANGED <<flows, requests>>
       ELSE /\ isGenerating' = TRUE
            /\ certError' = null
            /\ flows' = Suspend("cert")
            /\ requests' = [requests EXCEPT !["cert"] = @ + 1]
            /\ UNCHANGED <<isConverting, error, unhandled>>
    /\ UNCHANGED <<activeTab, markdown, certForm, dom, resources>>

\* Mutant of SetMarkdown: the requests in flight read the editor through a
\* live reference and follow the edit.
SetMarkdown_Live(value) ==
    /\ activeTab = "markdown"
    /\ markdown' = value
    /\ dom' = Rendered
    /\ flows' = [i \in FlowIds |->
                    IF flows[i].form = "conv"
                    THEN [flows[i] EXCEPT !.captured = value]
                    ELSE flows[i]]
    /\ UNCHANGED <<activeTab, convState, certForm, certState, requests,
                   submits, resources, unhandled>>

\* Mutant of SetMarkdown: typing dismisses the conversion error, as
\* updateCertField does for the certificate form.
SetMarkdown_ClearsError(value) ==
    /\ activeTab = "markdown"
    /\ markdown' = value
    /\ error' = null
    /\ dom' = Rendered
    /\ UNCHANGED <<activeTab, isConverting, certForm, certState, flows,
                   requests, submits, resources, unhandled>>

\* onChange of the editor textarea
SetMarkdown(value) ==
    /\ activeTab = "markdown"
    /\ markdown' = value
    /\ dom' = Rendered
    /\ UNCHANGED <<activeTab, convState, certForm, certState, flows, requests,
                   submits, resources, unhandled>>

\* Mutant of UpdateCertField: an edit abandons the certificate request in flight.
UpdateCertField_Aborting(field, value) ==
    /\ activeTab = "certificate"
    /\ certForm' = [certForm EXCEPT ![field] = value]
    /\ certError' = null
    /\ certSuccess' = FALSE
    /\ isGenerating' = FALSE
    /\ flows' = [i \in FlowIds \ InFlight("cert") |-> flows[i]]
    /\ dom' = [convDisabled |-> isConverting, genDisabled |-> FALSE]
    /\ UNCHANGED <<activeTab, markdown, convState, requests, submits,
                   resources, unhandled>>

\* Mutant of UpdateCertField: an edit stores the value and leaves the
\* displays as they are.
UpdateCertField_KeepsDisplays(field, value) ==
    /\ activeTab = "certificate"
    /\ certForm' = [certForm EXCEPT ![field] = value]
    /\ dom' = Rendered
    /\ UNCHANGED <<activeTab, markdown, convState, certState, flows,
                   requests, submits, resources, unhandled>>

\* onChange of a certificate field
UpdateCertField(field, value) ==
    /\ activeTab = "certificate"
    /\ certForm' = [certForm EXCEPT ![field] = value]
    /\ certError' = null
    /\ certSuccess' = FALSE
    /\ dom' = Rendered
    /\ UNCHANGED <<activeTab, markdown, convState, isGenerating, flows,
                   requests, submits, resources, unhandled>>

\* onClick of a tab button
\* Mutant of SetActiveTab: the editor is mounted anew with the tab and starts
\* from its initial text.
SetActiveTab_Remount(tab) ==
    /\ activeTab' = tab
    /\ dom' = Rendered
    /\ markdown' = InitMarkdown
    /\ UNCHANGED <<convState, certForm, certState, flows,
                   requests, submits, resources, unhandled>>

SetActiveTab(tab) ==
    /\ activeTab' = tab
    /\ dom' = Rendered
    /\ UNCHANGED <<markdown, convState, certForm, certState, flows,
                   requests, submits, resources, unhandled>>

\* ------------------------------------------------ continuations of a flow
\* Mutant of FetchReject: a transport failure is swallowed, nothing is shown.
FetchReject_Swallowed(i) ==
    /\ flows[i].pc = "fetch"
    /\ flows' = Return(i)
    /\ Finally(flows[i].form)
    /\ UNCHANGED <<activeTab, markdown, error, certForm, certError, certSuccess,
                   dom, requests, submits, resources, unhandled>>

\* await fetch(...) rejects: no response was received
FetchReject(i) ==
    /\ flows[i].pc = "fetch"
    /\ Fail(i, FetchFailedMsg)

\* await fetch(...) resolves; the continuation calls response.json() or
\* response.blob() and suspends again
FetchResolve(i, resp) ==
    /\ flows[i].pc = "fetch"
    /\ flows' = [flows EXCEPT ![i].status = resp.status,
                              ![i].body = resp.body,
                              ![i].pc = IF Ok(resp.status) THEN "blob" ELSE "json"]
    /\ UNCHANGED <<activeTab, markdown, convState, certForm, certState, dom,
                   requests, submits, resources, unhandled>>

\* await response.json().catch(...) settles and the error is thrown
JsonSettle(i) ==
    /\ flows[i].pc = "json"
    /\ Fail(i, ThrownMessage(flows[i].status, flows[i].body))

\* await response.blob() rejects: the body could not be read
BlobReject(i) ==
    /\ flows[i].pc = "blob"
    /\ Fail(i, BodyReadFailedMsg)

\* await response.blob() resolves: the download sequence, then finally
BlobResolve(i) ==
    /\ flows[i].pc = "blob"
    /\ LET form == flows[i].form
           st == RunSteps([urls |-> objectURLs, anchors |-> anchors,
                           saved |-> downloads, log |-> <<>>],
                          DownloadSteps, i,
                          DownloadName(form, flows[i].captured))
       IN /\ objectURLs' = st.urls
          /\ anchors' = st.anchors
          /\ downloads' = st.saved
          /\ opLog' = st.log
          /\ certSuccess' = IF form = "cert" THEN TRUE ELSE certSuccess
          /\ Finally(form)
    /\ flows' = Return(i)
    /\ UNCHANGED <<activeTab, markdown, error, certForm, certError, dom,
                   requests, submits, unhandled>>

\* --------------------------------------------------------- specification
\* The client and the server share no variable: a step of the client leaves
\* the server's state alone.
Next ==
    \/ ConvertToPdf /\ UNCHANGED <<server, legacy>>
    \/ GenerateCertificate /\ UNCHANGED <<server, legacy>>
    \/ \E value \in MarkdownTexts : SetMarkdown(value) /\ UNCHANGED <<server, legacy>>
    \/ \E value \in ParticipantNames :
            UpdateCertField("participant_name", value) /\ UNCHANGED <<server, legacy>>
    \/ \E value \in CourseChoices :
            UpdateCertField("course_name", value) /\ UNCHANGED <<server, legacy>>
    \/ \E value \in DateChoices :
            UpdateCertField("completion_date", value) /\ UNCHANGED <<server, legacy>>
    \/ \E value \in InstructorChoices :
            UpdateCertField("instructor_name", value) /\ UNCHANGED <<server, legacy>>
    \/ \E tab \in Tabs : SetActiveTab(tab) /\ UNCHANGED <<server, legacy>>
    \/ Commit /\ UNCHANGED <<server, legacy>>
    \/ \E i \in FlowIds : FetchReject(i) /\ UNCHANGED <<server, legacy>>
    \/ \E i \in FlowIds, resp \in Responses :
            FetchResolve(i, resp) /\ UNCHANGED <<server, legacy>>
    \/ \E i \in FlowIds : JsonSettle(i) /\ UNCHANGED <<server, legacy>>
    \/ \E i \in FlowIds : BlobReject(i) /\ UNCHANGED <<server, legacy>>
    \/ \E i \in FlowIds : BlobResolve(i) /\ UNCHANGED <<server, legacy>>

Spec == Init /\ [][Next]_vars

\* Every awaited promise of a flow settles: the network call resolves or
\* rejects, and so does the read of the body.
Settle ==
    /\ \E i \in FlowIds :
            \/ FetchReject(i)
            \/ \E resp \in Responses : FetchResolve(i, resp)
            \/ JsonSettle(i)
            \/ BlobReject(i)
            \/ BlobResolve(i)
    /\ UNCHANGED <<server, legacy>>

FairSpec == Spec /\ WF_vars(Settle)

\* ------------------------------------------- the certificate's file name
\* The certificate form filled in with any name of up to MaxNameLen
\* characters (letters and spaces) and otherwise valid fields, submitted and
\* answered with a PDF: the runs that compute a.download from the name.
NameChars == {"J", "D", " "}

RECURSIVE NamesUpTo(_)
NamesUpTo(n) ==
    IF n = 0 THEN {<<>>}
    ELSE LET shorter == NamesUpTo(n - 1)
         IN shorter \cup {Append(name, c) : name \in shorter, c \in NameChars}

NameInit ==
    /\ \E name \in NamesUpTo(MaxNameLen) :
            certForm = [InitCertForm EXCEPT
                            !.participant_name = name,
                            !.course_name = "Full-Stack AI Development"]
    /\ activeTab = "certificate"
    /\ markdown = InitMarkdown
    /\ isConverting = FALSE
    /\ error = null
    /\ isGenerating = FALSE
    /\ certError = null
    /\ certSuccess = FALSE
    /\ dom = [convDisabled |-> FALSE, genDisabled |-> FALSE]
    /\ flows = <<>>
    /\ requests = [f \in Forms |-> 0]
    /\ submits = [f \in Forms |-> 0]
    /\ objectURLs = {}
    /\ anchors = {}
    /\ downloads = <<>>
    /\ opLog = <<>>
    /\ unhandled = 0
    /\ calls = <<>>
    /\ replies = <<>>
    /\ LegacyInit

NameNext ==
    \/ GenerateCertificate /\ UNCHANGED <<server, legacy>>
    \/ Commit /\ UNCHANGED <<server, legacy>>
    \/ \E i \in FlowIds :
            FetchResolve(i, [status |-> 200, body |-> BlobBody]) /\ UNCHANGED <<server, legacy>>
    \/ \E i \in FlowIds : BlobResolve(i) /\ UNCHANGED <<server, legacy>>

NameSpec == NameInit /\ [][NameNext]_vars

\* ------------------------------------------------------------ the server
\* The two endpoints, POST /api/convert and POST /api/certificate.  A call is
\* one run of an endpoint handler; its fields are the handler's locals
\* (request, html, styled_html, pdf_buffer) and the step it has reached.
\* The steps of different calls interleave freely.
Endpoints == {"/api/convert", "/api/certificate"}

\* Request bodies; a field that is absent from the JSON is `undefined`.
\* "<table" stands for markup the PDF engine fails on.
MarkdownSources == {"", "# Test", "# Welcome", "<table"}
ConvertBodies ==
    [markdown : MarkdownSources \cup {undefined},
     filename : {undefined, "test.pdf"}]
CertificateBodies ==
    [participant_name : {undefined, <<"J", " ", "D">>},
     course_name : {undefined, "Full-Stack AI Development", "Basket Weaving"},
     completion_date : {"2026-01-01"},
     instructor_name : {undefined, "", "A. Teacher"}]
Bodies(endpoint) ==
    IF endpoint = "/api/convert" THEN ConvertBodies ELSE CertificateBodies

\* html = markdown.convert(request.markdown)
MarkdownToHtml(text) == <<"html", text>>

\* styled_html = HTML_TEMPLATE.format(content=html)
HTML_TEMPLATE(html) == <<"document", html>>

\* The instructor printed on a certificate: the default when the request
\* has no instructor_name.
DefaultInstructor == "IntelliForge AI Team"
InstructorUsed(body) ==
    IF body.instructor_name = undefined THEN DefaultInstructor
    ELSE body.instructor_name

\* The certificate template with the request's fields substituted
CERTIFICATE_TEMPLATE(body) ==
    <<"certificate", body.participant_name, body.course_name,
      body.completion_date, InstructorUsed(body)>>

\* The markup the HTML-to-PDF engine fails on
EngineFails(styled_html) == styled_html = HTML_TEMPLATE(MarkdownToHtml("<table"))

\* pisa.CreatePDF(styled_html, dest=pdf_buffer): the bytes of the document
CreatePDF(styled_html) == <<"%PDF", styled_html>>

\* Validation at the boundary: the detail of the error, or null
ConvertError(body) ==
    IF body.markdown \in {undefined, ""} THEN "Markdown content is required"
    ELSE null

\* Mutant of CertificateError: the course is only required to be present.
CertificateError_AnyCourse(body) ==
    IF body.participant_name = undefined THEN "participant_name is required"
    ELSE IF body.course_name = undefined THEN "course_name is required"
    ELSE IF body.completion_date = undefined THEN "completion_date is required"
    ELSE null

CertificateError(body) ==
    IF body.participant_name = undefined THEN "participant_name is required"
    ELSE IF body.course_name = undefined THEN "course_name is required"
    ELSE IF body.course_name \notin COURSES THEN "course_name is not a valid course"
    ELSE IF body.completion_date = undefined THEN "completion_date is required"
    ELSE null

ValidationDetail(endpoint, body) ==
    IF endpoint = "/api/convert" THEN ConvertError(body)
    ELSE CertificateError(body)

RenderErrorDetail == "PDF generation failed"

\* The suggested download name of the response
DefaultFilename == "document.pdf"
\* Mutant of SuggestedFilename: the request's filename is ignored.
SuggestedFilename_Ignored(endpoint, body) ==
    IF endpoint = "/api/convert" THEN <<DefaultFilename>>
    ELSE <<"Certificate_">> \o ReplaceSpaces(body.participant_name) \o <<".pdf">>

SuggestedFilename(endpoint, body) ==
    IF endpoint = "/api/convert"
    THEN <<IF body.filename = undefined THEN DefaultFilename ELSE body.filename>>
    ELSE <<"Certificate_">> \o ReplaceSpaces(body.participant_name) \o <<".pdf">>

\* Responses
NoReply ==
    [status |-> 0, media_type |-> null, content |-> <<>>, filename |-> <<>>,
     detail |-> undefined]
\* Mutant of PdfReply: the body is sent without the PDF media type.
PdfReply_Untyped(content, filename) ==
    [status |-> 200, media_type |-> "application/json", content |-> content,
     filename |-> filename, detail |-> undefined]

PdfReply(content, filename) ==
    [status |-> 200, media_type |-> "application/pdf", content |-> content,
     filename |-> filename, detail |-> undefined]
ErrorReply(status, detail) ==
    [status |-> status, media_type |-> "application/json", content |-> <<>>,
     filename |-> <<>>, detail |-> detail]

NewCall(endpoint, body) ==
    [endpoint |-> endpoint, request |-> body, pc |-> "validate",
     html |-> null, styled_html |-> null, pdf_buffer |-> <<>>]

CallIds == DOMAIN calls

\* A request arrives and its handler starts
Receive(endpoint, body) ==
    /\ Len(calls) < MaxRequests
    /\ calls' = Append(calls, NewCall(endpoint, body))
    /\ replies' = Append(replies, NoReply)
    /\ UNCHANGED <<client, legacy>>

\* The request is validated; an invalid one is answered with a client error
Validate(r) ==
    /\ calls[r].pc = "validate"
    /\ LET detail == ValidationDetail(calls[r].endpoint, calls[r].request) IN
       IF detail # null
       THEN /\ calls' = [calls EXCEPT ![r].pc = "done"]
            /\ replies' = [replies EXCEPT ![r] = ErrorReply(400, detail)]
       ELSE /\ calls' = [calls EXCEPT ![r].pc =
                            IF calls[r].endpoint = "/api/convert"
                            THEN "parse" ELSE "style"]
            /\ UNCHANGED replies
    /\ UNCHANGED <<client, legacy>>

\* 2. Parse markdown to HTML
Parse(r) ==
    /\ calls[r].pc = "parse"
    /\ calls' = [calls EXCEPT ![r].html = MarkdownToHtml(calls[r].request.markdown),
                              ![r].pc = "style"]
    /\ UNCHANGED <<replies, client, legacy>>

\* 3. Apply styling (the document template, or the certificate template)
Style(r) ==
    /\ calls[r].pc = "style"
    /\ calls' = [calls EXCEPT ![r].styled_html =
                                IF calls[r].endpoint = "/api/convert"
                                THEN HTML_TEMPLATE(calls[r].html)
                                ELSE CERTIFICATE_TEMPLATE(calls[r].request),
                              ![r].pc = "render"]
    /\ UNCHANGED <<replies, client, legacy>>

\* Mutant of Render: the markup is taken from a buffer shared by the
\* handlers, which holds the markup styled last.
Render_SharedBuffer(r) ==
    /\ calls[r].pc = "render"
    /\ LET latest == CHOOSE q \in CallIds :
                        /\ calls[q].styled_html # null
                        /\ \A p \in CallIds : p > q => calls[p].styled_html = null
           shared == calls[latest].styled_html
       IN IF EngineFails(shared)
          THEN /\ calls' = [calls EXCEPT ![r].pc = "done"]
               /\ replies' = [replies EXCEPT ![r] = ErrorReply(500, RenderErrorDetail)]
          ELSE /\ calls' = [calls EXCEPT ![r].pdf_buffer = CreatePDF(shared),
                                         ![r].pc = "respond"]
               /\ UNCHANGED replies
    /\ UNCHANGED <<client, legacy>>

\* Mutant of Render: a failure of the engine is not caught; the framework
\* answers with the traceback.
Render_Unhandled(r) ==
    /\ calls[r].pc = "render"
    /\ IF EngineFails(calls[r].styled_html)
       THEN /\ calls' = [calls EXCEPT ![r].pc = "done"]
            /\ replies' = [replies EXCEPT ![r] =
                                [status |-> 500, media_type |-> "text/plain",
                                 content |-> <<"Traceback">>, filename |-> <<>>,
                                 detail |-> undefined]]
       ELSE /\ calls' = [calls EXCEPT ![r].pdf_buffer = CreatePDF(calls[r].styled_html),
                                      ![r].pc = "respond"]
            /\ UNCHANGED replies
    /\ UNCHANGED <<client, legacy>>

\* 4. Generate PDF; a failure of the engine is answered with a server error
Render(r) ==
    /\ calls[r].pc = "render"
    /\ IF EngineFails(calls[r].styled_html)
       THEN /\ calls' = [calls EXCEPT ![r].pc = "done"]
            /\ replies' = [replies EXCEPT ![r] = ErrorReply(500, RenderErrorDetail)]
       ELSE /\ calls' = [calls EXCEPT ![r].pdf_buffer = CreatePDF(calls[r].styled_html),
                                      ![r].pc = "respond"]
            /\ UNCHANGED replies
    /\ UNCHANGED <<client, legacy>>

\* 5. Return PDF
Respond(r) ==
    /\ calls[r].pc = "respond"
    /\ replies' = [replies EXCEPT ![r] =
                        PdfReply(calls[r].pdf_buffer,
                                 SuggestedFilename(calls[r].endpoint, calls[r].request))]
    /\ calls' = [calls EXCEPT ![r].pc = "done"]
    /\ UNCHANGED <<client, legacy>>

ServerNext ==
    \/ \E endpoint \in Endpoints : \E body \in Bodies(endpoint) : Receive(endpoint, body)
    \/ \E r \in CallIds : Validate(r)
    \/ \E r \in CallIds : Parse(r)
    \/ \E r \in CallIds : Style(r)
    \/ \E r \in CallIds : Render(r)
    \/ \E r \in CallIds : Respond(r)

ServerSpec == Init /\ [][ServerNext]_vars

\* ------------------------------------------- the editor and the endpoint
\* The Conversion form talking to POST /api/convert: the request of a flow
\* reaches the server, a handler runs, and the fetch resolves with the
\* handler's response.  Other clients post to the endpoint as well.

\* The response as the client reads it: a blob when ok, the JSON error
\* object otherwise.
AsResponse(reply) ==
    [status |-> reply.status,
     body |-> IF Ok(reply.status) THEN BlobBody ELSE JsonObject(reply.detail)]

\* The request of flow i arrives at the server
Deliver(i) ==
    /\ flows[i].pc = "fetch"
    /\ flows[i].call = 0
    /\ Len(calls) < MaxRequests
    /\ LET form == flows[i].form
           endpoint == IF form = "conv" THEN "/api/convert" ELSE "/api/certificate"
       IN calls' = Append(calls, NewCall(endpoint, RequestBody(form, flows[i].captured)))
    /\ replies' = Append(replies, NoReply)
    /\ flows' = [flows EXCEPT ![i].call = Len(calls) + 1]
    /\ UNCHANGED <<activeTab, markdown, convState, certForm, certState, dom,
                   requests, submits, resources, unhandled, legacy>>

\* The response of the handler reaches flow i: its fetch resolves
Answer(i) ==
    /\ flows[i].call # 0
    /\ calls[flows[i].call].pc = "done"
    /\ FetchResolve(i, AsResponse(replies[flows[i].call]))
    /\ UNCHANGED <<server, legacy>>

EditorNext ==
    \/ \E value \in MarkdownTexts : SetMarkdown(value) /\ UNCHANGED <<server, legacy>>
    \/ ConvertToPdf /\ UNCHANGED <<server, legacy>>
    \/ Commit /\ UNCHANGED <<server, legacy>>
    \/ \E i \in FlowIds : Deliver(i)
    \/ \E body \in ConvertBodies : Receive("/api/convert", body)
    \/ \E r \in CallIds : Validate(r)
    \/ \E r \in CallIds : Parse(r)
    \/ \E r \in CallIds : Style(r)
    \/ \E r \in CallIds : Render(r)
    \/ \E r \in CallIds : Respond(r)
    \/ \E i \in FlowIds : Answer(i)
    \/ \E i \in FlowIds : JsonSettle(i) /\ UNCHANGED <<server, legacy>>
    \/ \E i \in FlowIds : BlobResolve(i) /\ UNCHANGED <<server, legacy>>

EditorSpec == Init /\ [][EditorNext]_vars

(***************************************************************************)
(* The certificate form edited while its request is in flight: the form   *)
(* starts filled in with any name of NamesUpTo(MaxNameLen), the user may   *)
(* retype the participant name at any time, the request body reaches the  *)
(* server and the server answers it with the PDF.                         *)
(***************************************************************************)
RenameValues == {<<>>, <<"D">>, <<"D", " ", "J">>}

RenameNext ==
    \/ GenerateCertificate /\ UNCHANGED <<server, legacy>>
    \/ \E value \in RenameValues :
            UpdateCertField("participant_name", value) /\ UNCHANGED <<server, legacy>>
    \/ Commit /\ UNCHANGED <<server, legacy>>
    \/ \E i \in FlowIds : Deliver(i)
    \/ \E i \in FlowIds :
            /\ flows[i].call # 0
            /\ FetchResolve(i, [status |-> 200, body |-> BlobBody])
            /\ UNCHANGED <<server, legacy>>
    \/ \E i \in FlowIds : BlobResolve(i) /\ UNCHANGED <<server, legacy>>

RenameSpec == NameInit /\ [][RenameNext]_vars

\* ------------------------------------------------------ the legacy client
\* The earlier client-side export: convertToPdf renders the preview to a
\* canvas (await html2canvas), lays the image out on A4 pages with jsPDF and
\* saves the document.  Lengths are kept exact by counting them in units of
\* 1/canvas.width mm: imgHeight = canvas.height * imgWidth / canvas.width.
\* savedPdf and alerts are those of the latest run.
imgWidth == 210
pageHeight == 297

CanvasWidths == {210, 420}
Canvases == [width : CanvasWidths, height : 1..MaxCanvasHeight]

ImgHeight(c) == c.height * imgWidth
PageHeight(c) == pageHeight * c.width

\* <div ref={previewRef}> is mounted
Mount ==
    /\ previewRef = null
    /\ previewRef' = "preview"
    /\ UNCHANGED <<isConvertingLegacy, legacyPc, canvas, heightLeft, position,
                   pdf, savedPdf, alerts, client, server>>

\* onClick of the Download PDF button (disabled={isConverting}), up to
\* await html2canvas
LegacyConvertToPdf ==
    /\ legacyPc = "idle"
    /\ ~isConvertingLegacy
    /\ IF previewRef = null
       THEN UNCHANGED <<isConvertingLegacy, legacyPc, canvas, heightLeft,
                        position, pdf, savedPdf, alerts>>
       ELSE /\ isConvertingLegacy' = TRUE
            /\ legacyPc' = "html2canvas"
            /\ canvas' = NoCanvas
            /\ heightLeft' = 0
            /\ position' = 0
            /\ pdf' = <<>>
            /\ savedPdf' = <<>>
            /\ alerts' = 0
    /\ UNCHANGED <<previewRef, client, server>>

\* await html2canvas rejects: catch (alert), finally
Html2CanvasReject ==
    /\ legacyPc = "html2canvas"
    /\ alerts' = alerts + 1
    /\ isConvertingLegacy' = FALSE
    /\ legacyPc' = "idle"
    /\ UNCHANGED <<previewRef, canvas, heightLeft, position, pdf, savedPdf,
                   client, server>>

\* await html2canvas resolves: dimensions, new jsPDF, first page
Html2CanvasResolve(c) ==
    /\ legacyPc = "html2canvas"
    /\ canvas' = c
    /\ position' = 0
    /\ pdf' = <<0>>
    /\ heightLeft' = ImgHeight(c) - PageHeight(c)
    /\ legacyPc' = "loop"
    /\ UNCHANGED <<previewRef, isConvertingLegacy, savedPdf, alerts, client,
                   server>>

\* Mutant of Paginate: the body of the loop adds nothing and leaves
\* heightLeft as it is.
Paginate_Stuck ==
    /\ legacyPc = "loop"
    /\ heightLeft >= 0
    /\ position' = heightLeft - ImgHeight(canvas)
    /\ UNCHANGED <<previewRef, isConvertingLegacy, legacyPc, canvas,
                   heightLeft, pdf, savedPdf, alerts, client, server>>

\* One iteration of while (heightLeft >= 0)
Paginate ==
    /\ legacyPc = "loop"
    /\ heightLeft >= 0
    /\ position' = heightLeft - ImgHeight(canvas)
    /\ pdf' = Append(pdf, heightLeft - ImgHeight(canvas))
    /\ heightLeft' = heightLeft - PageHeight(canvas)
    /\ UNCHANGED <<previewRef, isConvertingLegacy, legacyPc, canvas, savedPdf,
                   alerts, client, server>>

\* The loop is left: pdf.save('markdown-export.pdf'), finally
SavePdf ==
    /\ legacyPc = "loop"
    /\ ~(heightLeft >= 0)
    /\ savedPdf' = pdf
    /\ isConvertingLegacy' = FALSE
    /\ legacyPc' = "idle"
    /\ UNCHANGED <<previewRef, canvas, heightLeft, position, pdf, alerts,
                   client, server>>

LegacyNext ==
    \/ Mount
    \/ LegacyConvertToPdf
    \/ Html2CanvasReject
    \/ \E c \in Canvases : Html2CanvasResolve(c)
    \/ Paginate
    \/ SavePdf

LegacySpec == Init /\ [][LegacyNext]_vars

\* The synchronous part of convertToPdf runs to completion.
FairLegacySpec == LegacySpec /\ WF_vars(Paginate) /\ WF_vars(SavePdf)

\* ================================================================ claims
\* What a transition shows of a flow: it returns, it returns without a
\* download (catch ran), and the displays of its form after the step.
Returns(i) == i \in DOMAIN flows /\ i \notin DOMAIN flows'
ReturnsFailed(i) ==
    /\ Returns(i)
    /\ flows[i].pc \in {"fetch", "json"} \/ Len(downloads') = Len(downloads)
ErrorAfter(form) == IF form = "conv" THEN error' ELSE certError'
BusyAfter(form) == IF form = "conv" THEN isConverting' ELSE isGenerating'
TabOf(form) == IF form = "conv" THEN "markdown" ELSE "certificate"
IsMessage(e) == e \notin {null, undefined, ""}

\* C1: for each form, at most one request is in flight in every reachable
\* state, whatever the interleaving of submissions, commits and responses.
C1_AtMostOneInFlight == \A form \in Forms : Cardinality(InFlight(form)) <= 1

\* The error C2 expects for a non-ok response, case by case.
C2_Expected(status, body) ==
    IF body.json = "unparsable" THEN "Unknown error"
    ELSE IF body.detail \notin {undefined, ""} THEN body.detail
    ELSE IF status = 400 THEN "Server error: 400"
    ELSE "Server error: 500"

\* C2: when the non-ok response of a flow has been read, the error shown is
\* the body's detail if it parsed with a non-empty detail, 'Unknown error'
\* if it did not parse, 'Server error: <status>' if it parsed with detail
\* missing or empty; and no download is triggered.
C2_NonOkErrorShown ==
    [][\A i \in DOMAIN flows :
        (flows[i].pc = "json" /\ Returns(i)) =>
            /\ ErrorAfter(flows[i].form) = C2_Expected(flows[i].status, flows[i].body)
            /\ downloads' = downloads]_vars

\* The handler of a form can run whenever the form is shown idle.
C3_Accepted(form) ==
    (/\ ~Busy(form)
     /\ dom = Rendered
     /\ activeTab = TabOf(form)
     /\ TotalSubmits < MaxSubmits)
    => IF form = "conv" THEN ENABLED ConvertToPdf ELSE ENABLED GenerateCertificate

\* A submission (of a form that passes validation) issues one request.
C3_SubmitIssues(form) ==
    (/\ submits'[form] = submits[form] + 1
     /\ form = "cert" => ValidationError(certForm) = null)
    => requests'[form] = requests[form] + 1

\* C3: a flow that fails (non-ok response, body-read failure, transport
\* failure) leaves its form idle with a message displayed: the busy flag is
\* false and the error display is a non-empty message; and whenever the
\* form is shown idle a submission is accepted, and a submission with a
\* form that passes validation issues one more request.
C3_FailedFlowBackToIdle ==
    /\ [][\A i \in DOMAIN flows :
            ReturnsFailed(i) =>
                /\ ~BusyAfter(flows[i].form)
                /\ IsMessage(ErrorAfter(flows[i].form))]_vars
    /\ [][\A form \in Forms : C3_SubmitIssues(form)]_vars
    /\ [](\A form \in Forms : C3_Accepted(form))

\* C3 witness: the first conversion failed (it returned without a download),
\* the error is displayed, and the retry has been accepted and is in flight.
C3_Witness ==
    /\ submits["conv"] = 2
    /\ requests["conv"] = 2
    /\ downloads = <<>>
    /\ DOMAIN flows = {2}
    /\ flows[2].form = "conv"

\* The message of the error thrown when flow i fails at its current await.
C4_Thrown(i) ==
    CASE flows[i].pc = "fetch" -> FetchFailedMsg
      [] flows[i].pc = "json" -> ThrownMessage(flows[i].status, flows[i].body)
      [] flows[i].pc = "blob" -> BodyReadFailedMsg

C5_ReturnsToIdle ==
    /\ isConverting ~> ~isConverting
    /\ isGenerating ~> ~isGenerating
    /\ [](\A form \in Forms : InFlight(form) = {} => ~Busy(form))

\* C5 witness: a certificate request was issued, has settled, and the form
\* is idle.
C5_Witness ==
    /\ requests["cert"] = 1
    /\ InFlight("cert") = {}
    /\ ~isGenerating
    /\ dom = Rendered

\* C6: a successful response runs createObjectURL, appendChild, click,
\* revokeObjectURL, removeChild in this order, the click saves the file, and
\* after a completed flow no object URL is left unrevoked and no transient
\* anchor is left attached.
C6_DownloadOrderAndCleanup ==
    /\ opLog \in {<<>>, <<"createObjectURL", "appendChild", "click",
                          "revokeObjectURL", "removeChild">>}
    /\ (opLog = <<>>) = (downloads = <<>>)
    /\ objectURLs = {}
    /\ anchors = {}

\* C6 witness: a certificate was downloaded.
C6_Witness ==
    /\ Len(downloads) = 1
    /\ certSuccess
    /\ opLog # <<>>

\* C7: a form never issues more requests than it accepted submissions, a
\* request is issued only by the step that accepts a submission, one per
\* submission; in particular a failing flow issues none.
C7_NoRetryNoQueue ==
    /\ [](\A form \in Forms : requests[form] <= submits[form])
    /\ [][\A form \in Forms :
            requests'[form] # requests[form] =>
                /\ requests'[form] = requests[form] + 1
                /\ submits'[form] = submits[form] + 1]_vars
    /\ [][\A i \in DOMAIN flows : ReturnsFailed(i) => requests' = requests]_vars

\* C7 witness: the only conversion request failed and nothing is in flight.
C7_Witness ==
    /\ requests["conv"] = 1
    /\ submits["conv"] = 1
    /\ IsMessage(error)
    /\ flows = <<>>
    /\ dom = Rendered

\* C8: when the fetch of a flow rejects, the error display of its form is
\* set to the message of the failure, nothing is downloaded, the busy flag
\* is cleared and no request is sent.
C8_TransportFailure ==
    [][\A i \in DOMAIN flows :
        (flows[i].pc = "fetch" /\ Returns(i)) =>
            /\ ErrorAfter(flows[i].form) = FetchFailedMsg
            /\ IsMessage(ErrorAfter(flows[i].form))
            /\ ~BusyAfter(flows[i].form)
            /\ UNCHANGED <<requests, resources>>]_vars

\* C8 witness: the certificate request met a transport failure.
C8_Witness ==
    /\ certError = FetchFailedMsg
    /\ ~isGenerating
    /\ requests["cert"] = 1
    /\ downloads = <<>>

\* A step of the user or of the renderer, as opposed to a promise settling.
C9_UserStep ==
    \/ markdown' # markdown
    \/ certForm' # certForm
    \/ activeTab' # activeTab
    \/ submits' # submits
    \/ dom' # dom

\* C9: no step other than the settling of its own promises touches a flow in
\* flight: an edit, a tab switch, a commit or a submission leaves every
\* flow as it is, a flow keeps its form and the state it captured until it
\* returns, and a flow returns only with its result applied (a file saved
\* or an error displayed).
C9_NoCancellation ==
    [][\A i \in DOMAIN flows :
        /\ C9_UserStep => (i \in DOMAIN flows' /\ flows'[i] = flows[i])
        /\ i \in DOMAIN flows' =>
              /\ flows'[i].form = flows[i].form
              /\ flows'[i].captured = flows[i].captured
        /\ Returns(i) =>
              \/ /\ flows[i].pc = "blob"
                 /\ downloads' = Append(downloads,
                        [flow |-> i,
                         name |-> DownloadName(flows[i].form, flows[i].captured)])
              \/ IsMessage(ErrorAfter(flows[i].form))]_vars

\* C9 witness: the editor and the certificate form were both edited while
\* their requests are in flight.
C9_Witness ==
    /\ DOMAIN flows = {1, 2}
    /\ flows[1].form = "conv" /\ flows[1].captured # markdown
    /\ flows[2].form = "cert" /\ flows[2].captured # certForm

\* A name that is empty or all whitespace; the message of the first field
\* that fails; a form with a failing field.
C10_Blank(name) == \A k \in 1..Len(name) : name[k] = " "

C10_Message(form) ==
    IF C10_Blank(form.participant_name) THEN "Please enter participant name"
    ELSE IF form.course_name = "" THEN "Please select a course"
    ELSE "Please select a date"

C10_Invalid(form) ==
    \/ C10_Blank(form.participant_name)
    \/ form.course_name = ""
    \/ form.completion_date = ""

\* C10: a certificate submission whose participant name is empty or blank,
\* whose course is not selected or whose date is empty issues no request,
\* displays the message of the first such field, leaves certSuccess false
\* and the form idle.
C10_ClientValidation ==
    [][(submits'["cert"] = submits["cert"] + 1 /\ C10_Invalid(certForm)) =>
            /\ requests' = requests
            /\ flows' = flows
            /\ certError' = C10_Message(certForm)
            /\ ~certSuccess'
            /\ ~isGenerating']_vars

\* C10 witness: a submission with a blank (whitespace) name was rejected.
C10_Witness ==
    /\ certForm.participant_name = <<" ">>
    /\ certError = "Please enter participant name"
    /\ submits["cert"] >= 1
    /\ requests["cert"] = 0
    /\ ~isGenerating

\* A certificate flow completes in this step: a flow in flight returns, or a
\* submission ends in the handler (validation failed).
C11_FlowCompletes ==
    \/ \E i \in InFlight("cert") : Returns(i)
    \/ submits'["cert"] = submits["cert"] + 1

\* C11: an edit of a certificate field leaves certSuccess false and
\* certError null, a submission of the certificate form leaves certSuccess
\* false, and the two displays are set again only by a step in which a
\* certificate flow completes (certSuccess only by a download).
C11_SuccessClearedOnEdit ==
    /\ [][certForm' # certForm => (~certSuccess' /\ certError' = null)]_vars
    /\ [][submits'["cert"] = submits["cert"] + 1 => ~certSuccess']_vars
    /\ [][(certSuccess' /\ ~certSuccess) =>
            \E i \in InFlight("cert") :
                Returns(i) /\ Len(downloads') = Len(downloads) + 1]_vars
    /\ [][(certError' # null /\ certError' # certError) => C11_FlowCompletes]_vars

\* C11 witness: a certificate was downloaded, and the success display was
\* then cleared by an edit (there was no second submission).
C11_Witness ==
    /\ Len(downloads) = 1
    /\ downloads[1].name # <<"markdown-export.pdf">>
    /\ submits["cert"] = 1
    /\ flows = <<>>
    /\ ~certSuccess
    /\ certError = null

\* The characters of a name that are not whitespace preceded by whitespace
\* (the first character of every maximal whitespace run, and every other
\* character), and the name with those kept, whitespace written as '_'.
C12_Kept(name) ==
    {k \in 1..Len(name) : name[k] # " " \/ k = 1 \/ name[k - 1] # " "}

C12_Underscored(name) ==
    LET kept == C12_Kept(name)
        Nth(n) == CHOOSE k \in kept : Cardinality({j \in kept : j < k}) = n - 1
    IN [n \in 1..Cardinality(kept) |->
            IF name[Nth(n)] = " " THEN "_" ELSE name[Nth(n)]]

\* C12: every certificate saved is named 'Certificate_' + the participant
\* name with every maximal run of whitespace replaced by one '_' + '.pdf',
\* and the name has no whitespace character in it.
C12_CertificateFilename ==
    \A d \in 1..Len(downloads) :
        /\ downloads[d].name =
              <<"Certificate_">> \o C12_Underscored(certForm.participant_name)
              \o <<".pdf">>
        /\ \A k \in 1..Len(downloads[d].name) : downloads[d].name[k] # " "

\* C12 witness: the certificate of a name with a run of two spaces in it was
\* saved.
C12_Witness ==
    /\ certForm.participant_name = <<"J", " ", " ", "D">>
    /\ Len(downloads) = 1
    /\ downloads[1].name = <<"Certificate_", "J", "_", "D", ".pdf">>

\* C13: every certificate request issued with no instructor name supplied
\* by the user (the field left as it was, or cleared) is rendered with the
\* instructor "IntelliForge AI Team".
C13_InstructorDefault ==
    \A i \in InFlight("cert") :
        flows[i].captured.instructor_name \in {"", InitCertForm.instructor_name}
        => InstructorUsed(RequestBody("cert", flows[i].captured))
               = "IntelliForge AI Team"

\* C14: a conversion request whose markdown is absent or the empty string
\* is answered with a 4xx status and a JSON body with a detail message and
\* no document; and the flow of an empty editor, sent unvalidated, ends
\* with that detail displayed, the form idle and nothing downloaded.
C14_EmptyMarkdownRejected ==
    /\ [](\A r \in CallIds :
            (/\ calls[r].endpoint = "/api/convert"
             /\ calls[r].request.markdown \in {undefined, ""}
             /\ calls[r].pc = "done")
            => /\ replies[r].status \in 400..499
               /\ replies[r].media_type = "application/json"
               /\ IsMessage(replies[r].detail)
               /\ replies[r].content = <<>>)
    /\ [](\A i \in InFlight("conv") :
            flows[i].captured = "" =>
                RequestBody("conv", flows[i].captured).markdown = "")
    /\ [][\A i \in DOMAIN flows :
            (Returns(i) /\ flows[i].form = "conv" /\ flows[i].captured = "")
            => /\ flows[i].call # 0
               /\ error' = replies[flows[i].call].detail
               /\ ~isConverting'
               /\ downloads' = downloads]_vars

\* C14 witness: the empty editor was submitted, the endpoint rejected the
\* request, and its detail is displayed with the form idle.
C14_Witness ==
    /\ markdown = ""
    /\ Len(calls) >= 1
    /\ calls[1].request = [markdown |-> "", filename |-> "markdown-export.pdf"]
    /\ replies[1].status = 400
    /\ error = replies[1].detail
    /\ ~isConverting
    /\ flows = <<>>
    /\ downloads = <<>>

\* C15: a certificate request whose course_name is not one of COURSES is
\* answered with a validation error (4xx, JSON detail) and no document is
\* produced for it, whatever its other fields.
C15_UnknownCourseRejected ==
    \A r \in CallIds :
        (/\ calls[r].endpoint = "/api/certificate"
         /\ calls[r].request.course_name \notin COURSES)
        => /\ calls[r].pc \in {"validate", "done"}
           /\ calls[r].pdf_buffer = <<>>
           /\ replies[r].content = <<>>
           /\ calls[r].pc = "done" =>
                 /\ replies[r].status \in 400..499
                 /\ IsMessage(replies[r].detail)

\* C15 witness: a request with an unknown course and every other field
\* valid was rejected.
C15_Witness ==
    /\ Len(calls) >= 1
    /\ calls[1].endpoint = "/api/certificate"
    /\ <<"J", " ", "D">> = calls[1].request.participant_name
    /\ calls[1].request.course_name = "Basket Weaving"
    /\ calls[1].request.completion_date = "2026-01-01"
    /\ calls[1].request.instructor_name = "A. Teacher"
    /\ calls[1].pc = "done"
    /\ replies[1].status = 400

\* A conversion request the endpoint accepts and the engine renders
C16_Valid(call) ==
    /\ call.endpoint = "/api/convert"
    /\ call.request.markdown \in {"# Test", "# Welcome"}

\* A conversion request the endpoint rejects
C16_Invalid(call) ==
    /\ call.endpoint = "/api/convert"
    /\ call.request.markdown \in {undefined, ""}

\* C16: the response to a valid conversion request is one whole document
\* with the PDF content type and a non-empty body, the response to an
\* invalid one carries no document, and a response once sent is never
\* followed by another for the same request.
C16_OneDocumentPerValidRequest ==
    /\ [](\A r \in CallIds :
            /\ (C16_Valid(calls[r]) /\ calls[r].pc = "done") =>
                  /\ replies[r].status = 200
                  /\ replies[r].media_type = "application/pdf"
                  /\ Len(replies[r].content) > 0
                  /\ replies[r].content = calls[r].pdf_buffer
                  /\ replies[r].content[1] = "%PDF"
            /\ C16_Invalid(calls[r]) =>
                  /\ replies[r].content = <<>>
                  /\ replies[r].media_type # "application/pdf"
            /\ calls[r].pc # "done" => replies[r] = NoReply)
    /\ [][\A r \in CallIds :
            replies[r] # NoReply => replies'[r] = replies[r]]_vars

\* C16 witness: a valid and an invalid conversion request were answered.
C16_Witness ==
    /\ Len(calls) = 2
    /\ C16_Valid(calls[1]) /\ calls[1].pc = "done"
    /\ replies[1].media_type = "application/pdf"
    /\ C16_Invalid(calls[2]) /\ calls[2].pc = "done"
    /\ replies[2].status = 400

\* The document is rendered from the payload of this call: the text in it
\* is the call's markdown, or the call's certificate fields.
C17_RenderedFrom(content, call) ==
    IF call.endpoint = "/api/convert"
    THEN /\ content[2][1] = "document"
         /\ content[2][2][2] = call.request.markdown
    ELSE /\ content[2][1] = "certificate"
         /\ content[2][2] = call.request.participant_name
         /\ content[2][3] = call.request.course_name
         /\ content[2][4] = call.request.completion_date
         /\ content[2][5] \in {call.request.instructor_name, "IntelliForge AI Team"}

\* C17: whatever the interleaving of the steps of concurrent calls, the
\* document sent for a request is rendered from that request's payload and
\* from nothing else.
C17_NoCrossContamination ==
    \A r \in CallIds :
        /\ calls[r].pdf_buffer # <<>> => C17_RenderedFrom(calls[r].pdf_buffer, calls[r])
        /\ replies[r].status = 200 => C17_RenderedFrom(replies[r].content, calls[r])

\* C17 witness: two conversion requests with different markdown are handled
\* concurrently; the second was answered while the first is still being
\* rendered.
C17_Witness ==
    /\ Len(calls) = 2
    /\ calls[1].endpoint = "/api/convert" /\ calls[2].endpoint = "/api/convert"
    /\ calls[1].request.markdown = "# Test"
    /\ calls[2].request.markdown = "# Welcome"
    /\ calls[1].pc = "render"
    /\ calls[2].pc = "done"
    /\ replies[2].status = 200

\* A conversion request whose markup the engine fails on
C18_Failing(call) ==
    /\ call.endpoint = "/api/convert"
    /\ call.request.markdown = "<table"

C19_SuggestedFilename ==
    \A r \in CallIds :
        (calls[r].endpoint = "/api/convert" /\ replies[r].status = 200) =>
            /\ Len(replies[r].filename) = 1
            /\ IsMessage(replies[r].filename[1])
            /\ calls[r].request.filename # undefined =>
                  replies[r].filename[1] = calls[r].request.filename
            /\ \A q \in CallIds :
                  (/\ calls[q].endpoint = "/api/convert"
                   /\ replies[q].status = 200
                   /\ calls[r].request.filename = undefined
                   /\ calls[q].request.filename = undefined)
                  => replies[q].filename = replies[r].filename

\* C19 witness: a request with the filename test.pdf and a request without
\* a filename were both answered with a document.
C19_Witness ==
    /\ Len(calls) = 2
    /\ calls[1].endpoint = "/api/convert" /\ calls[2].endpoint = "/api/convert"
    /\ calls[1].request.filename = "test.pdf"
    /\ replies[1].filename = <<"test.pdf">>
    /\ calls[2].request.filename = undefined
    /\ replies[2].status = 200
    /\ replies[2].filename # <<"test.pdf">>

C22_PagesNeeded(h, p) == (h + p - 1) \div p

\* C22: the document saved by the legacy path has as many pages as are
\* needed to show the image, ceil(imgHeight / 297): an image that fits
\* exactly on k pages is saved with k pages.
C22_PageCount ==
    savedPdf # <<>> =>
        Len(savedPdf) = C22_PagesNeeded(ImgHeight(canvas), PageHeight(canvas))

\* C23: every iteration of the pagination loop runs with heightLeft >= 0
\* and lowers it by the page height; the loop is left with heightLeft
\* negative, the document is then saved and the busy flag cleared; and a
\* run that entered the loop gets there.
C23_PaginationTerminates ==
    /\ [][(legacyPc = "loop" /\ legacyPc' = "loop") =>
            /\ heightLeft >= 0
            /\ heightLeft' = heightLeft - PageHeight(canvas)
            /\ heightLeft' < heightLeft]_vars
    /\ [][(legacyPc = "loop" /\ legacyPc' # "loop") =>
            /\ heightLeft < 0
            /\ savedPdf' = pdf
            /\ ~isConvertingLegacy']_vars
    /\ (legacyPc = "loop") ~>
            (legacyPc = "idle" /\ ~isConvertingLegacy /\ savedPdf # <<>>)

\* C23 witness: a document was saved after two iterations of the loop.
C23_Witness ==
    /\ legacyPc = "idle"
    /\ Len(savedPdf) = 3
    /\ heightLeft < 0
    /\ ~isConvertingLegacy

\* C24: in every reachable state the busy flag of a form is true exactly
\* when a flow of that form has started and not yet finished.
C24_BusyIffInFlight ==
    \A form \in Forms : Busy(form) <=> InFlight(form) # {}

\* C25: in every reachable state the success display and the error display
\* of the Certificate form are not both shown: certSuccess only with
\* certError null.
C25_SuccessXorError == certSuccess => certError = null

\* C26: every certificate request the client sends carries a course_name of
\* COURSES, a participant name that is not blank and a completion date that
\* is not empty, whatever edits and submissions came before.
C26_SentRequestsValid ==
    /\ [](\A i \in InFlight("cert") :
            LET body == RequestBody("cert", flows[i].captured) IN
            /\ body.course_name \in COURSES
            /\ ~C10_Blank(body.participant_name)
            /\ body.completion_date # "")
    /\ [][requests'["cert"] # requests["cert"] =>
            /\ certForm.course_name \in COURSES
            /\ ~C10_Blank(certForm.participant_name)
            /\ certForm.completion_date # ""]_vars

\* C26 witness: a first submission was stopped by the validation, and after
\* more edits the second one sent its request.
C26_Witness ==
    /\ submits["cert"] = 2
    /\ requests["cert"] = 1
    /\ InFlight("cert") = {2}

\* C27: a file is saved only by the step in which the blob of an ok
\* response has been read, one file for that flow; a flow whose response
\* was not ok, whose fetch failed or whose blob could not be read saves
\* nothing; no flow saves twice; and certSuccess turns true only in a step
\* that has saved the file and run the cleanup.
C27_OneDownloadPerOkResponse ==
    /\ [][downloads' # downloads =>
            \E i \in DOMAIN flows :
                /\ Returns(i)
                /\ flows[i].pc = "blob"
                /\ Ok(flows[i].status)
                /\ downloads' = Append(downloads,
                        [flow |-> i,
                         name |-> DownloadName(flows[i].form, flows[i].captured)])]_vars
    /\ [][\A i \in DOMAIN flows :
            Returns(i) =>
                \/ /\ flows[i].pc = "blob"
                   /\ Len(downloads') = Len(downloads) + 1
                \/ /\ downloads' = downloads
                   /\ IsMessage(ErrorAfter(flows[i].form))]_vars
    /\ [](\A d, e \in 1..Len(downloads) :
            downloads[d].flow = downloads[e].flow => d = e)
    /\ [](Len(downloads) <= requests["conv"] + requests["cert"])
    /\ [][(certSuccess' /\ ~certSuccess) =>
            /\ Len(downloads') = Len(downloads) + 1
            /\ opLog' = <<"createObjectURL", "appendChild", "click",
                           "revokeObjectURL", "removeChild">>
            /\ objectURLs' = {}
            /\ anchors' = {}]_vars

\* C27 witness: two requests were answered with a PDF and two files saved,
\* one by each flow.
C27_Witness ==
    /\ Len(downloads) = 2
    /\ downloads[1].flow # downloads[2].flow
    /\ requests["conv"] + requests["cert"] = 2
    /\ flows = <<>>

\* C28: the body of a certificate request is the form of the render in
\* which the submission ran, it stays what it was while the user retypes
\* the participant name, and the file saved by that flow is named after the
\* participant name that was sent, whatever the form holds by then.
C28_CapturedAtSubmission ==
    /\ [][\A i \in DOMAIN flows' \ DOMAIN flows :
            flows'[i].captured = certForm]_vars
    /\ [](\A i \in InFlight("cert") :
            flows[i].call # 0 => calls[flows[i].call].request = flows[i].captured)
    /\ [][\A i \in DOMAIN flows :
            (Returns(i) /\ flows[i].form = "cert"
                /\ Len(downloads') > Len(downloads)) =>
                /\ flows[i].call # 0
                /\ downloads'[Len(downloads')].name =
                      <<"Certificate_">>
                      \o C12_Underscored(calls[flows[i].call].request.participant_name)
                      \o <<".pdf">>]_vars

\* C28 witness: the only submission sent the name "J D", the name was
\* retyped to "D J" before the response was handled, and the file saved is
\* Certificate_J_D.pdf.
C28_Witness ==
    /\ submits["cert"] = 1
    /\ Len(calls) = 1
    /\ <<"J", " ", "D">> = calls[1].request.participant_name
    /\ certForm.participant_name = <<"D", " ", "J">>
    /\ certSuccess
    /\ Len(downloads) = 1
    /\ downloads[1].name = <<"Certificate_", "J", "_", "D", ".pdf">>

\* A step of the form's flow: a submission of the form, a step of one of
\* its flows in flight, or an edit of its fields.
C29_StepOf(form) ==
    \/ submits'[form] # submits[form]
    \/ \E i \in InFlight(form) : Returns(i) \/ flows'[i] # flows[i]
    \/ IF form = "conv" THEN markdown' # markdown ELSE certForm' # certForm

\* C29: a step of the Conversion flow (submission, response, failure,
\* markdown edit) leaves certForm, isGenerating, certError and certSuccess
\* unchanged, and a step of the Certificate flow leaves markdown,
\* isConverting and error unchanged; no step changes the state of both
\* forms.
C29_FormsIndependent ==
    /\ [][C29_StepOf("conv") =>
            UNCHANGED <<certForm, isGenerating, certError, certSuccess>>]_vars
    /\ [][C29_StepOf("cert") =>
            UNCHANGED <<markdown, isConverting, error>>]_vars
    /\ [][\/ UNCHANGED <<certForm, isGenerating, certError, certSuccess>>
          \/ UNCHANGED <<markdown, isConverting, error>>]_vars

\* C29 witness: a request of each form is in flight at the same time, both
\* busy flags set.
C29_Witness ==
    /\ \E i \in InFlight("conv") : flows[i].pc = "fetch"
    /\ \E i \in InFlight("cert") : flows[i].pc = "fetch"
    /\ isConverting
    /\ isGenerating

\* The tab on which the form is shown
C30_TabOf(form) == IF form = "conv" THEN "markdown" ELSE "certificate"

\* C30: a step that changes activeTab leaves the markdown text, the
\* certificate form, both busy flags, the error and success displays and
\* the flows in flight unchanged; and a flow that ends while the other tab
\* is shown clears the busy flag of its own form and either saves its file
\* or stores its message.
C30_TabSwitchOnlyActiveTab ==
    /\ [][activeTab' # activeTab =>
            UNCHANGED <<markdown, certForm, isConverting, isGenerating, error,
                        certError, certSuccess, flows, requests, downloads>>]_vars
    /\ [][\A i \in DOMAIN flows :
            (Returns(i) /\ activeTab # C30_TabOf(flows[i].form)) =>
                /\ IF flows[i].form = "conv" THEN ~isConverting'
                   ELSE ~isGenerating'
                /\ \/ /\ Len(downloads') = Len(downloads) + 1
                      /\ downloads'[Len(downloads')].flow = i
                      /\ flows[i].form = "cert" => certSuccess'
                   \/ /\ downloads' = downloads
                      /\ IsMessage(ErrorAfter(flows[i].form))]_vars

\* C30 witness: the only submission was a conversion; its response was
\* handled while the Certificate tab was shown (the button is still drawn
\* as it was at the last render, disabled), the file was saved and the
\* busy flag cleared.
C30_Witness ==
    /\ activeTab = "certificate"
    /\ submits = [conv |-> 1, cert |-> 0]
    /\ Len(downloads) = 1
    /\ downloads[1].name = <<"markdown-export.pdf">>
    /\ dom.convDisabled
    /\ ~isConverting
    /\ flows = <<>>

\* C31: while a request of a form is in flight, that form's error display
\* is null, and while a certificate request is in flight certSuccess is
\* false.
C31_NoStaleOutcomeInFlight ==
    /\ InFlight("conv") # {} => error = null
    /\ InFlight("cert") # {} => (certError = null /\ ~certSuccess)

\* C32: a step that changes the markdown text leaves the conversion busy
\* flag, the conversion error, the requests issued, the flows in flight and
\* the certificate form unchanged; the editor accepts an edit whenever the
\* Markdown tab is shown, a conversion in flight or not; and a conversion
\* error that is displayed goes away only in a step that submits the form.
C32_EditChangesOnlyMarkdown ==
    /\ [][markdown' # markdown =>
            UNCHANGED <<isConverting, error, requests, submits, flows,
                        certForm, certState, downloads>>]_vars
    /\ [](activeTab = "markdown" =>
            ENABLED (\E value \in MarkdownTexts :
                        SetMarkdown(value) /\ UNCHANGED <<server, legacy>>))
    /\ [][(IsMessage(error) /\ error' = null) =>
            submits'["conv"] = submits["conv"] + 1]_vars

\* C32 witness: the text was edited while the only conversion is in flight:
\* the editor no longer holds the text that was sent, the form is still
\* busy and the request still pending.
C32_Witness ==
    /\ submits = [conv |-> 1, cert |-> 0]
    /\ InFlight("conv") = {1}
    /\ flows[1].pc = "fetch"
    /\ flows[1].captured = "# Welcome"
    /\ markdown = ""
    /\ isConverting
    /\ requests["conv"] = 1

====
